---- MODULE Spec2Model ----
(***************************************************************************)
(* Model of qcow-rs' guest-disk Reader (src/src/reader.rs): the cursor,    *)
(* the two validity-tagged translation caches, the one-cluster buffer,     *)
(* and the read / seek operations over them.                               *)
(*                                                                         *)
(* Machine integers are scaled: u64 is PosBits wide, i64 is PosBits wide   *)
(* and signed, i128 is wide enough never to overflow.  Table indices are   *)
(* 0-based in the source and 1-based in the sequences below.               *)
(***************************************************************************)
EXTENDS Integers, Sequences, FiniteSets

\* ------------------------------------------------------------------------
\* Widths and sizes
\* ------------------------------------------------------------------------
PosBits == 7

ClusterBits == 4

EntrySize == 8

MaxL1 == 2

RECURSIVE Pow2(_)
Pow2(n) == IF n = 0 THEN 1 ELSE 2 * Pow2(n - 1)

\* u64::MAX + 1 and i64::MAX + 1 at the scaled width
U64 == Pow2(PosBits)

I64 == Pow2(PosBits - 1)

ClusterSize == Pow2(ClusterBits)

L2Entries == ClusterSize \div EntrySize

Min(a, b) == IF a <= b THEN a ELSE b

\* ------------------------------------------------------------------------
\* The image: L2 entries, L1 entries, the L1 table, the header
\* ------------------------------------------------------------------------
\* An L2 entry describes one cluster: data (id names the payload), an
\* unallocated cluster that decodes to zeros, or a cluster whose payload
\* cannot be read or decompressed.
MkL2(kind, id) == [kind |-> kind, id |-> id]

\* Byte i of the decoded payload id: never zero, different in every cluster
\* at the same offset and at every offset of one cluster.
DataByte(id, i) == ((id * 37 + i) % 255) + 1

Zeros == [i \in 1..ClusterSize |-> 0]

\* L2Entry::read_contents into a cluster-sized buffer: the decoded bytes, or
\* a failure that leaves the buffer as it was.
read_contents(entry, buf) ==
    CASE entry.kind = "data" ->
            [ok |-> TRUE, buf |-> [i \in 1..ClusterSize |-> DataByte(entry.id, i - 1)]]
      [] entry.kind = "zero" -> [ok |-> TRUE, buf |-> Zeros]
      [] OTHER -> [ok |-> FALSE, buf |-> buf]

\* L1Entry::read_l2: the entry's L2 table, or nothing when it is unreadable.
read_l2(entry) ==
    IF entry.readable THEN [some |-> TRUE, v |-> entry.entries]
                      ELSE [some |-> FALSE, v |-> <<>>]

\* The L1 entries an image is built from, by kind, for L1 index j:
\*   "U"  unallocated (l2_offset = 0); its table materializes to entries that
\*        describe nothing of the guest disk
\*   "A"  allocated, every cluster data but the last, which is unallocated
\*   "B"  allocated, every cluster data but the last, which does not decode
\*   "X"  allocated, its L2 table cannot be read from the host
L1Kinds == {"U", "A", "B", "X"}

MkL1(kind, j) ==
    CASE kind = "U" ->
            [l2_offset |-> 0, readable |-> TRUE,
             entries |-> [i \in 1..L2Entries |-> MkL2("data", 200 + i)]]
      [] kind = "A" ->
            [l2_offset |-> j + 1, readable |-> TRUE,
             entries |-> [i \in 1..L2Entries |->
                            IF i = L2Entries THEN MkL2("zero", 0)
                                             ELSE MkL2("data", j * L2Entries + i - 1)]]
      [] kind = "B" ->
            [l2_offset |-> j + 1, readable |-> TRUE,
             entries |-> [i \in 1..L2Entries |->
                            IF i = L2Entries THEN MkL2("bad", 0)
                                             ELSE MkL2("data", j * L2Entries + i - 1)]]
      [] OTHER ->
            [l2_offset |-> j + 1, readable |-> FALSE, entries |-> <<>>]

MkTable(kinds) == [j \in 1..Len(kinds) |-> MkL1(kinds[j], j - 1)]

\* Tables of up to MaxL1 entries with at most one entry that is not of kind "A"
KindSeqs ==
    {k \in UNION {[1..n -> L1Kinds] : n \in 1..MaxL1} :
        Cardinality({j \in DOMAIN k : k[j] # "A"}) <= 1}

\* Bytes of guest address space one L1 entry governs
L1Span == ClusterSize * L2Entries

\* Header sizes tried for a table of n entries: one inside the table's span,
\* ending inside a cluster, and one above i64::MAX.
DiskSizes(n) ==
    {s \in {n * L1Span - ClusterSize - 3, I64 + ClusterSize + 5} : s > 0 /\ s < U64}

\* Qcow2::reader panics unless L1 entry 0 exists, its L2 table materializes
\* and is not empty, and the first cluster decodes.
Constructible(table) ==
    /\ Len(table) > 0
    /\ read_l2(table[1]).some
    /\ Len(read_l2(table[1]).v) > 0
    /\ read_contents(read_l2(table[1]).v[1], Zeros).ok

Images ==
    UNION {{[l1_table |-> MkTable(k), size |-> s] : s \in DiskSizes(Len(k))} :
              k \in {kk \in KindSeqs : Constructible(MkTable(kk))}}

\* ------------------------------------------------------------------------
\* The Reader (struct Reader) and its operations, as functions of the
\* Reader record `self` and the image `q`
\* ------------------------------------------------------------------------
cluster_size(q) == ClusterSize

\* Qcow2::reader: position 0, both keys 0, entry 0 and its table cached, the
\* first cluster decoded.  `io` is not a field of the Reader: it counts the
\* calls of read_l2 and read_contents, the accesses to the host source, and
\* is reset before every call the caller makes.
reader(q) ==
    LET l1_cache == q.l1_table[1]
        l2_table_cache == read_l2(l1_cache).v
        l2_cache == l2_table_cache[1]
    IN  [pos |-> 0, l1_key |-> 0, l2_key |-> 0,
         l1_cache |-> l1_cache,
         l2_table_cache |-> l2_table_cache,
         l2_cache |-> l2_cache,
         current_cluster |-> read_contents(l2_cache, Zeros).buf,
         io |-> 0]

guest_pos(self) == self.pos

\* Results of the cache refreshes: the Reader as the call left it, and "Ok"
\* or the kind of the error returned.
Res(self, err) == [self |-> self, err |-> err]

\* update_l1_cache taking the cluster number for the L1 index, as if an L2
\* table held a single entry
update_l1_cache_by_cluster(self, q) ==
    LET l1_key == self.pos \div cluster_size(q)
    IN  IF self.l1_key # l1_key
        THEN LET s1 == [self EXCEPT !.l1_key = l1_key]
             IN  IF l1_key >= Len(q.l1_table)
                 THEN Res(s1, "UnexpectedEof")
                 ELSE LET s2 == [s1 EXCEPT !.l1_cache = q.l1_table[l1_key + 1],
                                           !.io = @ + 1]
                          t == read_l2(s2.l1_cache)
                      IN  IF ~t.some
                          THEN Res(s2, "UnexpectedEof")
                          ELSE Res([s2 EXCEPT !.l2_table_cache = t.v], "Ok")
        ELSE Res(self, "Ok")

update_l1_cache(self, q) ==
    LET l2_entries == cluster_size(q) \div EntrySize
        l1_key == (self.pos \div cluster_size(q)) \div l2_entries
    IN  IF self.l1_key # l1_key
        THEN LET s1 == [self EXCEPT !.l1_key = l1_key]
             IN  IF l1_key >= Len(q.l1_table)
                 THEN Res(s1, "UnexpectedEof")
                 ELSE LET s2 == [s1 EXCEPT !.l1_cache = q.l1_table[l1_key + 1],
                                           !.io = @ + 1]
                          t == read_l2(s2.l1_cache)
                      IN  IF ~t.some
                          THEN Res(s2, "UnexpectedEof")
                          ELSE Res([s2 EXCEPT !.l2_table_cache = t.v], "Ok")
        ELSE Res(self, "Ok")

\* fill_cluster without the zero fill of a cluster under an unallocated L1
\* entry: the buffer keeps what it held
fill_cluster_no_zero(self) ==
    IF self.l1_cache.l2_offset = 0
    THEN Res(self, "Ok")
    ELSE LET d == read_contents(self.l2_cache, self.current_cluster)
         IN  IF d.ok THEN Res([self EXCEPT !.current_cluster = d.buf, !.io = @ + 1], "Ok")
                     ELSE Res([self EXCEPT !.current_cluster = d.buf, !.io = @ + 1], "Decode")

\* The second half of update_l2_cache: zero-fill or decode into the buffer
fill_cluster(self) ==
    IF self.l1_cache.l2_offset = 0
    THEN Res([self EXCEPT !.current_cluster = Zeros], "Ok")
    ELSE LET d == read_contents(self.l2_cache, self.current_cluster)
         IN  IF d.ok THEN Res([self EXCEPT !.current_cluster = d.buf, !.io = @ + 1], "Ok")
                     ELSE Res([self EXCEPT !.current_cluster = d.buf, !.io = @ + 1], "Decode")

update_l2_cache(self, q) ==
    LET l2_entries == cluster_size(q) \div EntrySize
        l2_key == self.pos \div cluster_size(q)
        l2_index == l2_key % l2_entries
    IN  IF self.l2_key # l2_key
        THEN LET r1 == update_l1_cache([self EXCEPT !.l2_key = l2_key], q)
             IN  IF r1.err # "Ok"
                 THEN r1
                 ELSE IF r1.self.l1_cache.l2_offset # 0
                      THEN fill_cluster([r1.self EXCEPT
                                !.l2_cache = r1.self.l2_table_cache[l2_index + 1],
                                !.l2_key = l2_key])
                      ELSE fill_cluster(r1.self)
        ELSE fill_cluster(self)

\* ------------------------------------------------------------------------
\* Machine arithmetic
\* ------------------------------------------------------------------------
\* A value reinterpreted as i64 (`as i64`), and what a wrapping i64 addition
\* leaves
as_i64(x) == ((x + I64) % U64) - I64

fits_i64(x) == x >= -I64 /\ x < I64

fits_u64(x) == x >= 0 /\ x < U64

\* Outcome of an operation: the Reader as the call left it, how the call
\* ended ("Ok", "Err", or "Panic" when it aborted), the error kind or panic
\* cause, the value returned on Ok, the bytes copied to the caller, and the
\* outcomes of the refresh before the copy (`first`) and of the pre-warm
\* after it (`warm`), "none" when not run.
Outcome(self, res, kind, val, data, first, warm) ==
    [self |-> self, res |-> res, kind |-> kind, val |-> val, data |-> data,
     first |-> first, warm |-> warm]

\* impl Read for Reader: read into a buffer of n bytes.  `checks` says
\* whether the build checks integer overflow (panic) or wraps.
\* read_len one byte short of the end of the cluster
read_len_short(self, q, n) ==
    LET pos_in_cluster == self.pos % cluster_size(q)
        bytes_remaining_in_cluster == cluster_size(q) - pos_in_cluster - 1
    IN  Min(bytes_remaining_in_cluster, n)

\* read_len that delivers nothing at or past the end of the disk
read_len_eof(self, q, n) ==
    LET pos_in_cluster == self.pos % cluster_size(q)
        bytes_remaining_in_cluster == cluster_size(q) - pos_in_cluster
    IN  IF self.pos >= q.size THEN 0 ELSE Min(bytes_remaining_in_cluster, n)

read_len(self, q, n) ==
    LET pos_in_cluster == self.pos % cluster_size(q)
        bytes_remaining_in_cluster == cluster_size(q) - pos_in_cluster
    IN  Min(bytes_remaining_in_cluster, n)

\* read that returns the failure of its pre-warm instead of discarding it
read_strict(self, q, n, checks) ==
    LET r1 == update_l2_cache(self, q)
    IN  IF r1.err # "Ok"
        THEN Outcome(r1.self, "Err", r1.err, 0, <<>>, r1.err, "none")
        ELSE LET s1 == r1.self
                 pos_in_cluster == s1.pos % cluster_size(q)
                 len == read_len(s1, q, n)
                 read_end == pos_in_cluster + len
                 data == SubSeq(s1.current_cluster, pos_in_cluster + 1, read_end)
                 sum == s1.pos + len
             IN  IF ~fits_u64(sum) /\ checks
                 THEN Outcome(s1, "Panic", "overflow", 0, data, "Ok", "none")
                 ELSE LET r2 == update_l2_cache([s1 EXCEPT !.pos = sum % U64], q)
                      IN  IF r2.err = "Ok"
                          THEN Outcome(r2.self, "Ok", "", len, data, "Ok", r2.err)
                          ELSE Outcome(r2.self, "Err", r2.err, 0, <<>>, "Ok", r2.err)

read(self, q, n, checks) ==
    LET r1 == update_l2_cache(self, q)
    IN  IF r1.err # "Ok"
        THEN Outcome(r1.self, "Err", r1.err, 0, <<>>, r1.err, "none")
        ELSE LET s1 == r1.self
                 pos_in_cluster == s1.pos % cluster_size(q)
                 len == read_len(s1, q, n)
                 read_end == pos_in_cluster + len
                 data == SubSeq(s1.current_cluster, pos_in_cluster + 1, read_end)
                 sum == s1.pos + len
             IN  IF ~fits_u64(sum) /\ checks
                 THEN Outcome(s1, "Panic", "overflow", 0, data, "Ok", "none")
                 ELSE LET r2 == update_l2_cache([s1 EXCEPT !.pos = sum % U64], q)
                      IN  Outcome(r2.self, "Ok", "", len, data, "Ok", r2.err)

\* seek_pos that takes a Current offset from the start of the disk
seek_pos_absolute(self, q, whence, off, checks) ==
    IF whence = "End"
    THEN IF fits_u64(q.size + off)
         THEN [res |-> "Ok", pos |-> q.size + off, kind |-> ""]
         ELSE [res |-> "Err", pos |-> self.pos, kind |-> "InvalidInput"]
    ELSE IF fits_u64(off)
         THEN [res |-> "Ok", pos |-> off, kind |-> ""]
         ELSE [res |-> "Err", pos |-> self.pos, kind |-> "InvalidInput"]

\* The position arithmetic of seek: [res |-> "Ok", pos |-> the new position],
\* "Err" (InvalidInput) or "Panic".
seek_pos(self, q, whence, off, checks) ==
    CASE whence = "Start" -> [res |-> "Ok", pos |-> off, kind |-> ""]
      [] whence = "Current" ->
            IF fits_i64(self.pos)
            THEN LET sum == self.pos + off
                 IN  IF ~fits_i64(sum) /\ checks
                     THEN [res |-> "Panic", pos |-> self.pos, kind |-> "overflow"]
                     ELSE IF fits_u64(as_i64(sum))
                          THEN [res |-> "Ok", pos |-> as_i64(sum), kind |-> ""]
                          ELSE [res |-> "Err", pos |-> self.pos, kind |-> "InvalidInput"]
            ELSE LET wide == self.pos + off
                 IN  IF ~fits_i64(wide)
                     THEN [res |-> "Panic", pos |-> self.pos, kind |-> "unwrap"]
                     ELSE IF fits_u64(wide)
                          THEN [res |-> "Ok", pos |-> wide, kind |-> ""]
                          ELSE [res |-> "Err", pos |-> self.pos, kind |-> "InvalidInput"]
      [] OTHER ->
            LET sum == off + as_i64(q.size)
            IN  IF ~fits_i64(sum) /\ checks
                THEN [res |-> "Panic", pos |-> self.pos, kind |-> "overflow"]
                ELSE IF fits_u64(as_i64(sum))
                     THEN [res |-> "Ok", pos |-> as_i64(sum), kind |-> ""]
                     ELSE [res |-> "Err", pos |-> self.pos, kind |-> "InvalidInput"]

\* seek that puts pos back when the refresh for the new position fails
seek_rollback(self, q, whence, off, checks) ==
    LET a == seek_pos(self, q, whence, off, checks)
    IN  IF a.res # "Ok"
        THEN Outcome(self, a.res, a.kind, 0, <<>>, "none", "none")
        ELSE LET r == update_l2_cache([self EXCEPT !.pos = a.pos], q)
             IN  IF r.err = "Ok"
                 THEN Outcome(r.self, "Ok", "", r.self.pos, <<>>, "Ok", "none")
                 ELSE Outcome([r.self EXCEPT !.pos = self.pos], "Err", r.err, 0,
                              <<>>, r.err, "none")

\* impl Seek for Reader
seek(self, q, whence, off, checks) ==
    LET a == seek_pos(self, q, whence, off, checks)
    IN  IF a.res # "Ok"
        THEN Outcome(self, a.res, a.kind, 0, <<>>, "none", "none")
        ELSE LET r == update_l2_cache([self EXCEPT !.pos = a.pos], q)
             IN  IF r.err = "Ok"
                 THEN Outcome(r.self, "Ok", "", r.self.pos, <<>>, "Ok", "none")
                 ELSE Outcome(r.self, "Err", r.err, 0, <<>>, r.err, "none")

\* ------------------------------------------------------------------------
\* State
\* ------------------------------------------------------------------------
VARIABLES
    qcow,               \* the image metadata: [l1_table, size]
    overflow_checks,    \* whether the build panics on integer overflow
    pos, l1_key, l1_cache, l2_table_cache, l2_key, l2_cache, current_cluster,
    panicked,           \* a call aborted: the Reader is gone
    last,               \* the last call: what was asked, from where, its outcome
    scan                \* bytes delivered since the last seek(Start(p)), p < size

vars == <<qcow, overflow_checks, pos, l1_key, l1_cache, l2_table_cache, l2_key,
          l2_cache, current_cluster, panicked, last, scan>>

Self ==
    [pos |-> pos, l1_key |-> l1_key, l2_key |-> l2_key, l1_cache |-> l1_cache,
     l2_table_cache |-> l2_table_cache, l2_cache |-> l2_cache,
     current_cluster |-> current_cluster, io |-> 0]

Install(s) ==
    /\ pos' = s.pos
    /\ l1_key' = s.l1_key
    /\ l2_key' = s.l2_key
    /\ l1_cache' = s.l1_cache
    /\ l2_table_cache' = s.l2_table_cache
    /\ l2_cache' = s.l2_cache
    /\ current_cluster' = s.current_cluster

NoCall ==
    [op |-> "none", mode |-> "", arg |-> 0, res |-> "Ok", kind |-> "",
     val |-> 0, data |-> <<>>, first |-> "none", warm |-> "none", io |-> 0]

\* The record of a call: the operation, its arguments, its outcome and the
\* number of accesses it made to the host source
Call(op, mode, arg, o) ==
    [op |-> op, mode |-> mode, arg |-> arg, res |-> o.res,
     kind |-> o.kind, val |-> o.val, data |-> o.data, first |-> o.first,
     warm |-> o.warm, io |-> o.self.io]

\* No scan in progress.  A scan is [from: the offset sought, sought: whether
\* the seek returned Ok, out: the bytes the reads returned since, end: "none",
\* or how it ended ("Eof" for Ok(0), an error kind, "Panic")].
Idle == [active |-> FALSE, from |-> 0, sought |-> FALSE, out |-> <<>>, end |-> "none"]

\* ------------------------------------------------------------------------
\* Inputs
\* ------------------------------------------------------------------------
BufLens == {0, 1, 3, 10, ClusterSize + 1}

InCluster == {0, 5, ClusterSize - 1}

\* Clusters sought: those of the largest table, the first one past it, the
\* one at i64::MAX + 1 and the last one of the address space
TargetClusters == 0..(MaxL1 * L2Entries) \cup {I64 \div ClusterSize, (U64 \div ClusterSize) - 1}

StartTargets ==
    {p \in {c * ClusterSize + o : c \in TargetClusters, o \in InCluster} : p < U64}

RelOffsets == {-I64, -ClusterSize, -1, 0, 1, ClusterSize, I64 - 1}

\* ------------------------------------------------------------------------
\* Initial state and actions
\* ------------------------------------------------------------------------
Init ==
    /\ qcow \in Images
    /\ overflow_checks \in BOOLEAN
    /\ pos = reader(qcow).pos
    /\ l1_key = reader(qcow).l1_key
    /\ l2_key = reader(qcow).l2_key
    /\ l1_cache = reader(qcow).l1_cache
    /\ l2_table_cache = reader(qcow).l2_table_cache
    /\ l2_cache = reader(qcow).l2_cache
    /\ current_cluster = reader(qcow).current_cluster
    /\ panicked = FALSE
    /\ last = NoCall
    /\ scan = Idle

\* The scan after a read of a non-empty buffer: the bytes appended, or how
\* the scan ended.  It is followed one read past the end of the disk.
ScanRead(o) ==
    IF scan.active /\ scan.end = "none" /\ scan.from + Len(scan.out) <= qcow.size
    THEN CASE o.res = "Ok" /\ o.val > 0 -> [scan EXCEPT !.out = scan.out \o o.data]
           [] o.res = "Ok" -> [scan EXCEPT !.end = "Eof"]
           [] o.res = "Err" -> [scan EXCEPT !.end = o.kind]
           [] OTHER -> [scan EXCEPT !.end = "Panic"]
    ELSE Idle

Read(n) ==
    /\ ~panicked
    /\ LET o == read(Self, qcow, n, overflow_checks)
       IN  /\ Install(o.self)
           /\ panicked' = (o.res = "Panic")
           /\ last' = Call("read", "", n, o)
           /\ scan' = IF n > 0 THEN ScanRead(o) ELSE Idle
    /\ UNCHANGED <<qcow, overflow_checks>>

Seek(whence, off) ==
    /\ ~panicked
    /\ LET o == seek(Self, qcow, whence, off, overflow_checks)
       IN  /\ Install(o.self)
           /\ panicked' = (o.res = "Panic")
           /\ last' = Call("seek", whence, off, o)
           /\ scan' = IF whence = "Start" /\ off < qcow.size
                      THEN [active |-> TRUE, from |-> off, sought |-> o.res = "Ok",
                            out |-> <<>>,
                            end |-> IF o.res = "Ok" THEN "none" ELSE o.kind]
                      ELSE Idle
    /\ UNCHANGED <<qcow, overflow_checks>>

SeekStart == \E p \in StartTargets : Seek("Start", p)

SeekCurrent == \E d \in RelOffsets : Seek("Current", d)

SeekEnd == \E d \in RelOffsets : Seek("End", d)

ReadBuf == \E n \in BufLens : Read(n)

Next == ReadBuf \/ SeekStart \/ SeekCurrent \/ SeekEnd

Spec == Init /\ [][Next]_vars

\* The disk of the two-entry scenario: L1 entry 0 unallocated, L1 entry 1
\* allocated with its first cluster populated, disk_size two clusters
ScenarioImage == [l1_table |-> MkTable(<<"U", "A">>), size |-> 2 * ClusterSize]

InitScenario ==
    /\ qcow = ScenarioImage
    /\ overflow_checks \in BOOLEAN
    /\ pos = reader(qcow).pos
    /\ l1_key = reader(qcow).l1_key
    /\ l2_key = reader(qcow).l2_key
    /\ l1_cache = reader(qcow).l1_cache
    /\ l2_table_cache = reader(qcow).l2_table_cache
    /\ l2_cache = reader(qcow).l2_cache
    /\ current_cluster = reader(qcow).current_cluster
    /\ panicked = FALSE
    /\ last = NoCall
    /\ scan = Idle

ScenarioSpec == InitScenario /\ [][Next]_vars

\* ------------------------------------------------------------------------
\* The virtual disk the image describes, read off the tables directly
\* ------------------------------------------------------------------------
L1Index(p) == (p \div ClusterSize) \div L2Entries

L2Index(p) == (p \div ClusterSize) % L2Entries

InTable(q, p) == L1Index(p) < Len(q.l1_table)

Governing(q, p) == q.l1_table[L1Index(p) + 1]

Unallocated(q, p) == InTable(q, p) /\ Governing(q, p).l2_offset = 0

\* The cluster holding offset p has reference content: its L1 entry exists
\* and is unallocated, or its L2 table is readable and its L2 entry decodes.
Resolves(q, p) ==
    /\ InTable(q, p)
    /\ \/ Governing(q, p).l2_offset = 0
       \/ /\ Governing(q, p).readable
          /\ Governing(q, p).entries[L2Index(p) + 1].kind # "bad"

RefByte(q, p) ==
    IF Governing(q, p).l2_offset = 0 THEN 0
    ELSE LET e == Governing(q, p).entries[L2Index(p) + 1]
         IN  IF e.kind = "zero" THEN 0 ELSE DataByte(e.id, p % ClusterSize)

RefBytes(q, p, n) == [i \in 1..n |-> RefByte(q, p + i - 1)]

\* Every byte of [0, size) has reference content
WellFormed(q) ==
    /\ q.size <= Len(q.l1_table) * L1Span
    /\ \A c \in 0..((q.size - 1) \div ClusterSize) : Resolves(q, c * ClusterSize)

IsPrefix(s, t) == Len(s) <= Len(t) /\ SubSeq(t, 1, Len(s)) = s

\* ------------------------------------------------------------------------
\* C1  After a successful seek(Start(p)), p < disk_size, reading with
\*     non-empty buffers until a read returns 0 or an error yields exactly
\*     the reference bytes p .. disk_size-1: every byte right, none missing,
\*     none beyond disk_size.
\* ------------------------------------------------------------------------
C1_ReadToExhaustion ==
    (scan.active /\ scan.sought /\ WellFormed(qcow)) =>
        /\ scan.from + Len(scan.out) <= qcow.size
        /\ IsPrefix(scan.out, RefBytes(qcow, scan.from, qcow.size - scan.from))
        /\ scan.end # "none" => scan.from + Len(scan.out) = qcow.size

\* ------------------------------------------------------------------------
\* C2  A successful read(buf) at position p returns
\*     n = min(cluster_size - p mod cluster_size, len(buf)), so
\*     p mod cluster_size + n <= cluster_size, and copies n bytes: bytes
\*     [p mod cluster_size, p mod cluster_size + n) of the cluster holding p.
\* ------------------------------------------------------------------------
C2_Step ==
    (last'.op = "read" /\ last'.res = "Ok") =>
        LET n == last'.val
        IN  /\ n = Min(ClusterSize - (pos % ClusterSize), last'.arg)
            /\ (pos % ClusterSize) + n <= ClusterSize
            /\ Len(last'.data) = n
            /\ Resolves(qcow, pos) => last'.data = RefBytes(qcow, pos, n)

C2_ReadWithinCluster == [][C2_Step]_vars

\* a 3-byte read that the cluster boundary cut to fewer bytes
C2_Witness ==
    /\ last.op = "read" /\ last.res = "Ok"
    /\ last.arg = 3 /\ last.val \in {1, 2}
    /\ pos % ClusterSize = 0
    /\ \E i \in 1..Len(last.data) : last.data[i] # 0

\* The call of this step was a seek whose position arithmetic went through:
\* pos' is the position it asked for.
Sought == last'.op = "seek" /\ last'.res # "Panic" /\ last'.kind # "InvalidInput"

\* ------------------------------------------------------------------------
\* C3  When the L1 entry governing p is unallocated, a seek to p succeeds
\*     and the reads of that cluster return only zero bytes, cluster_size of
\*     them for the whole cluster, whatever was cached before.
\* ------------------------------------------------------------------------
C3_Step ==
    /\ (Sought /\ Unallocated(qcow, pos')) =>
            /\ last'.res = "Ok"
            /\ current_cluster' = Zeros
    /\ (last'.op = "read" /\ last'.arg > 0 /\ Unallocated(qcow, pos)) =>
            /\ last'.res # "Err"
            /\ last'.res = "Ok" =>
                    /\ last'.val > 0
                    /\ last'.data = [i \in 1..last'.val |-> 0]
    /\ (scan'.active /\ scan'.sought /\ Unallocated(qcow, scan'.from)
            /\ scan'.from % ClusterSize = 0) =>
            /\ IsPrefix(SubSeq(scan'.out, 1, Min(Len(scan'.out), ClusterSize)), Zeros)
            /\ scan'.end \in {"none", "Panic"} \/ Len(scan'.out) >= ClusterSize

C3_UnallocatedReadsZero == [][C3_Step]_vars

\* a whole cluster under an unallocated L1 entry read from its first byte,
\* sought from a position whose cluster held data
C3_Witness ==
    /\ scan.active /\ scan.sought
    /\ Unallocated(qcow, scan.from)
    /\ scan.from % ClusterSize = 0
    /\ scan.from > 0
    /\ Len(scan.out) = ClusterSize
    /\ \E j \in 1..Len(qcow.l1_table) : qcow.l1_table[j].l2_offset # 0

\* ------------------------------------------------------------------------
\* C4  Whenever the L1 index of position p is past the end of the L1 table,
\*     a read at p and a seek to p both return the end-of-stream error and
\*     deliver no data, whatever came before.
\* ------------------------------------------------------------------------
C4_Step ==
    /\ (last'.op = "read" /\ ~InTable(qcow, pos)) =>
            /\ last'.res = "Err" /\ last'.kind = "UnexpectedEof"
            /\ last'.data = <<>>
    /\ (Sought /\ ~InTable(qcow, pos')) =>
            last'.res = "Err" /\ last'.kind = "UnexpectedEof"

C4_PastTableFails == [][C4_Step]_vars

\* ------------------------------------------------------------------------
\* C5  When a read or seek failed in translation or decoding for position
\*     p, a read at p or a seek to p made right after fails again with the
\*     same kind of error.
\* ------------------------------------------------------------------------
TranslationErrors == {"UnexpectedEof", "Decode"}

C5_Step ==
    (last.res = "Err" /\ last.kind \in TranslationErrors) =>
        /\ last'.op = "read" =>
                last'.res = "Err" /\ last'.kind = last.kind
        /\ (Sought /\ pos' = pos) =>
                last'.res = "Err" /\ last'.kind = last.kind

C5_FailureRecurs == [][C5_Step]_vars

\* ------------------------------------------------------------------------
\* Sequential reading: a Reader as constructed, read with cluster-sized
\* buffers until a read fails or aborts, for at most `steps` reads
\* ------------------------------------------------------------------------
LinearSteps == (U64 \div ClusterSize) + 2

RECURSIVE LinearRun(_, _, _, _, _)
LinearRun(self, q, checks, acc, steps) ==
    IF steps = 0
    THEN [bytes |-> acc, end |-> "none"]
    ELSE LET o == read(self, q, ClusterSize, checks)
         IN  CASE o.res = "Ok" /\ o.val > 0 ->
                    LinearRun(o.self, q, checks, acc \o o.data, steps - 1)
               [] o.res = "Ok" -> [bytes |-> acc, end |-> "Eof"]
               [] o.res = "Err" -> [bytes |-> acc, end |-> o.kind]
               [] OTHER -> [bytes |-> acc, end |-> "Panic"]

Linear(q, checks) == LinearRun(reader(q), q, checks, <<>>, LinearSteps)

Drop(s, k) == SubSeq(s, k + 1, Len(s))

\* ------------------------------------------------------------------------
\* C6  For every k < disk_size, seek(Start(k)) and reading to exhaustion
\*     gives the bytes, and the final outcome, that reading a new Reader
\*     from offset 0 to exhaustion gives after its first k bytes - whatever
\*     the buffer sizes and whatever was done before the seek.
\* ------------------------------------------------------------------------
C6_SeekThenRead ==
    scan.active =>
        LET lin == Linear(qcow, overflow_checks)
            rest == Drop(lin.bytes, scan.from)
        IN  /\ IsPrefix(scan.out, rest)
            /\ scan.end # "none" => (scan.out = rest /\ scan.end = lin.end)

\* ------------------------------------------------------------------------
\* C7  seek(Current(d)) from position p: when p + d is in [0, 2^64) the
\*     position becomes p + d; otherwise the call returns the out-of-range
\*     error and leaves pos at p.  The sum never wraps and the call never
\*     aborts.
\* ------------------------------------------------------------------------
C7_Step ==
    (last'.op = "seek" /\ last'.mode = "Current") =>
        IF fits_u64(pos + last'.arg)
        THEN last'.res # "Panic" /\ pos' = pos + last'.arg
        ELSE last'.res = "Err" /\ last'.kind = "InvalidInput" /\ pos' = pos

C7_SeekCurrent == [][C7_Step]_vars

\* ------------------------------------------------------------------------
\* C8  seek(End(d)): when disk_size + d is in [0, 2^64) the position becomes
\*     disk_size + d (End(0) gives disk_size); otherwise the call returns the
\*     out-of-range error and leaves pos unchanged.  disk_size is never
\*     taken for a negative number and the sum never wraps.
\* ------------------------------------------------------------------------
C8_Step ==
    (last'.op = "seek" /\ last'.mode = "End") =>
        IF fits_u64(qcow.size + last'.arg)
        THEN last'.res # "Panic" /\ pos' = qcow.size + last'.arg
        ELSE last'.res = "Err" /\ last'.kind = "InvalidInput" /\ pos' = pos

C8_SeekEnd == [][C8_Step]_vars

\* ------------------------------------------------------------------------
\* C9  seek(Current(0)) leaves pos unchanged in every reachable state,
\*     whether it returns Ok or an error, and on Ok returns that pos.
\* ------------------------------------------------------------------------
C9_Step ==
    (last'.op = "seek" /\ last'.mode = "Current" /\ last'.arg = 0) =>
        /\ pos' = pos
        /\ last'.res = "Ok" => last'.val = pos

C9_SeekCurrentZero == [][C9_Step]_vars

\* seek(Current(0)) returned at a position past the L1 table, where only a
\* failed seek or reads of stale data leave the Reader
C9_Witness ==
    /\ last.op = "seek" /\ last.mode = "Current" /\ last.arg = 0
    /\ last.res = "Ok" /\ last.val = pos
    /\ ~InTable(qcow, pos)

\* ------------------------------------------------------------------------
\* C10 A read whose first refresh succeeds returns Ok(n) with its n bytes
\*     and pos advanced by n even when the refresh for the new position
\*     fails: that failure is not returned by the read.
\* ------------------------------------------------------------------------
C10_Step ==
    (last'.op = "read" /\ last'.first = "Ok" /\ last'.warm \in TranslationErrors) =>
        /\ last'.res = "Ok"
        /\ last'.val = Min(ClusterSize - (pos % ClusterSize), last'.arg)
        /\ Len(last'.data) = last'.val
        /\ pos' = pos + last'.val
        /\ Resolves(qcow, pos) => last'.data = RefBytes(qcow, pos, last'.val)

C10_PrewarmFailureDiscarded == [][C10_Step]_vars

\* a read that delivered data up to the end of the L1 table, whose pre-warm
\* found no L1 entry for the next cluster
C10_Witness ==
    /\ last.op = "read" /\ last.res = "Ok" /\ last.val > 0
    /\ last.warm = "UnexpectedEof"
    /\ ~InTable(qcow, pos)
    /\ Resolves(qcow, pos - 1)
    /\ last.data = RefBytes(qcow, pos - last.val, last.val)

\* The cluster holding offset p as the image describes it
RefCluster(q, p) == RefBytes(q, p - (p % ClusterSize), ClusterSize)

\* ------------------------------------------------------------------------
\* C11 A seek returns Ok(v) only when the cluster of the new position was
\*     resolved through the L1 entry and the L2 entry that govern it and
\*     stands, decoded or zero-filled, in current_cluster, and then v is the
\*     new pos; when the cluster does not resolve (no L1 entry, no L2 table,
\*     a decode failure) the seek returns the error.
\* ------------------------------------------------------------------------
C11_Step ==
    /\ (last'.op = "seek" /\ last'.res = "Ok") =>
            /\ Resolves(qcow, pos')
            /\ l1_cache' = Governing(qcow, pos')
            /\ l1_cache'.l2_offset # 0 =>
                    l2_cache' = Governing(qcow, pos').entries[L2Index(pos') + 1]
            /\ current_cluster' = RefCluster(qcow, pos')
            /\ last'.val = pos'
    /\ (Sought /\ ~Resolves(qcow, pos')) => last'.res = "Err"

C11_SeekOkOnlyWhenResolved == [][C11_Step]_vars

\* The L1 index of a guest offset on an image of the given cluster size
l1_index(p, size) == (p \div size) \div (size \div EntrySize)

\* This step is a 10-byte read made right after a successful seek(Start(p))
ReadTenAfterSeekStart(p) ==
    /\ last.op = "seek" /\ last.mode = "Start" /\ last.arg = p /\ last.res = "Ok"
    /\ last'.op = "read" /\ last'.arg = 10

TenZeros == [i \in 1..10 |-> 0]

\* C12 as stated: on the two-entry disk the offset one cluster in is
\* translated through L1 index 1, so that seek(Start(cluster_size)) and a
\* 10-byte read return the first 10 bytes of the populated cluster, and
\* seek(Start(0)) and a 10-byte read return 10 zero bytes.
C12_AsStated_Step ==
    /\ ReadTenAfterSeekStart(ClusterSize) =>
            /\ l1_key = 1
            /\ last'.res = "Ok" /\ last'.data = RefBytes(qcow, L1Span, 10)
    /\ ReadTenAfterSeekStart(0) =>
            last'.res = "Ok" /\ last'.data = TenZeros

C12_AsStated == [][C12_AsStated_Step]_vars

\* ------------------------------------------------------------------------
\* C12 On the two-entry disk (L1 entry 0 unallocated, L1 entry 1 allocated
\*     with a populated cluster) the offset one cluster in is translated
\*     through L1 index 0 - with 65536-byte clusters (65536 / 65536) / 8192
\*     is 0 - so seek(Start(cluster_size)) and a 10-byte read return 10 zero
\*     bytes, as seek(Start(0)) and a 10-byte read do; the first 10 bytes of
\*     the populated cluster are what seek(Start(cluster_size * l2_entries)),
\*     the first offset of L1 index 1, and a 10-byte read return.
\* ------------------------------------------------------------------------
C12_Step ==
    /\ l1_index(65536, 65536) = 0
    /\ l1_index(65536 * (65536 \div EntrySize), 65536) = 1
    /\ (last'.op = "seek" /\ last'.res = "Ok") =>
            l1_key' = l1_index(pos', ClusterSize)
    /\ ReadTenAfterSeekStart(ClusterSize) =>
            /\ l1_key = 0
            /\ last'.res = "Ok" /\ last'.data = TenZeros
    /\ ReadTenAfterSeekStart(0) =>
            last'.res = "Ok" /\ last'.data = TenZeros
    /\ ReadTenAfterSeekStart(L1Span) =>
            /\ l1_key = 1
            /\ last'.res = "Ok" /\ last'.data = RefBytes(qcow, L1Span, 10)
            /\ \A i \in 1..10 : last'.data[i] # 0

C12_TwoEntryScenario == [][C12_Step]_vars

\* the 10 bytes read at the first offset of L1 index 1: the populated cluster
C12_Witness ==
    /\ qcow = ScenarioImage
    /\ last.op = "read" /\ last.arg = 10 /\ last.res = "Ok"
    /\ pos = L1Span + 10
    /\ l1_key = 1
    /\ last.data = RefBytes(qcow, L1Span, 10)
    /\ last.data # TenZeros

\* ------------------------------------------------------------------------
\* C13 Every read leaves pos at its value before the call plus the number
\*     of bytes it delivered: n on Ok(n), with n <= len(buf) bytes copied,
\*     and 0 on an error, which copies nothing; pos never moves backwards.
\* ------------------------------------------------------------------------
C13_Step ==
    /\ (last'.op = "read" /\ last'.res = "Ok") =>
            /\ pos' = pos + last'.val
            /\ Len(last'.data) = last'.val
            /\ last'.val <= last'.arg
    /\ (last'.op = "read" /\ last'.res = "Err") =>
            pos' = pos /\ last'.data = <<>>
    /\ last'.op = "read" => pos' >= pos

C13_ReadAdvancesByDelivered == [][C13_Step]_vars

\* The cluster of pos before and after this step is the one l2_key tags
\* before it: every refresh the step makes finds its key unchanged
SameCluster ==
    /\ pos \div ClusterSize = l2_key
    /\ pos' \div ClusterSize = l2_key

\* ------------------------------------------------------------------------
\* C14 A cache refresh for a position in the cluster l2_key already tags is
\*     only an equality check: a read or seek that stays in that cluster
\*     calls neither read_l2 nor read_contents, so the host source is
\*     accessed once per change of the cluster key and not once per call.
\* ------------------------------------------------------------------------
C14_Step ==
    /\ (last'.op = "read" /\ last'.res # "Panic" /\ SameCluster) => last'.io = 0
    /\ (Sought /\ SameCluster) => last'.io = 0

C14_RefreshOnlyOnKeyChange == [][C14_Step]_vars

\* ------------------------------------------------------------------------
\* C15 In every state from the Reader Qcow2::reader returns onward, after
\*     successful and failed calls alike: when the L1 entry at index l1_key
\*     is unallocated, current_cluster holds only zero bytes.
\* ------------------------------------------------------------------------
C15_UnallocatedBufferZero ==
    (l1_key < Len(qcow.l1_table) /\ qcow.l1_table[l1_key + 1].l2_offset = 0) =>
        current_cluster = Zeros

\* ------------------------------------------------------------------------
\* C16 In every state, after failed reads and seeks too, the caches are the
\*     ones their keys tag: l1_cache is the L1 table's entry at index l1_key
\*     and, when it is allocated, l2_table_cache is the table read from it
\*     and l2_cache its element at index l2_key mod l2_entries.
\* ------------------------------------------------------------------------
C16_CachesMatchKeys ==
    /\ l1_key < Len(qcow.l1_table)
    /\ l1_cache = qcow.l1_table[l1_key + 1]
    /\ l1_cache.l2_offset # 0 =>
            /\ read_l2(l1_cache).some
            /\ l2_table_cache = read_l2(l1_cache).v
            /\ l2_cache = l2_table_cache[(l2_key % L2Entries) + 1]

\* ------------------------------------------------------------------------
\* C17 A read returns Ok(0) exactly when the caller's buffer is empty, at
\*     every position, those at or past disk_size included: there a read
\*     into a non-empty buffer returns an error of the translation or
\*     delivers at least one byte, never a zero-length result.
\* ------------------------------------------------------------------------
C17_Step ==
    last'.op = "read" =>
        /\ last'.res = "Ok" =>
                /\ (last'.val = 0) <=> (last'.arg = 0)
                /\ Len(last'.data) = last'.val
        /\ (last'.arg > 0 /\ pos >= qcow.size) =>
                \/ /\ last'.res = "Err" /\ last'.kind \in TranslationErrors
                   /\ last'.data = <<>>
                \/ last'.res = "Ok" /\ last'.val > 0
                \/ last'.res = "Panic" /\ Len(last'.data) > 0

C17_NoEndOfDisk == [][C17_Step]_vars

\* a read at a position past disk_size that the tables still resolve: it
\* delivered the bytes of that cluster
C17_Witness ==
    /\ last.op = "read" /\ last.res = "Ok"
    /\ last.arg > 0 /\ last.val > 0
    /\ pos >= last.val
    /\ pos - last.val >= qcow.size
    /\ Resolves(qcow, pos - last.val)
    /\ last.data = RefBytes(qcow, pos - last.val, last.val)

\* The position the seek of this step asks for
Target ==
    CASE last'.mode = "Start" -> last'.arg
      [] last'.mode = "Current" -> pos + last'.arg
      [] OTHER -> qcow.size + last'.arg

\* ------------------------------------------------------------------------
\* C18 A seek that fails in its position arithmetic (Current or End out of
\*     range) leaves pos and both cache keys unchanged; a seek that fails
\*     afterwards, in the cache refresh, has committed the move: pos is the
\*     requested target, where the next read operates.
\* ------------------------------------------------------------------------
C18_Step ==
    /\ (last'.op = "seek" /\ last'.res = "Err" /\ last'.kind = "InvalidInput") =>
            /\ last'.mode # "Start"
            /\ pos' = pos /\ l1_key' = l1_key /\ l2_key' = l2_key
    /\ (last'.op = "seek" /\ last'.res = "Err" /\ last'.kind \in TranslationErrors
            /\ fits_u64(Target)) =>
            /\ pos' = Target
            /\ l2_key' = Target \div ClusterSize

C18_FailedSeek == [][C18_Step]_vars

\* a seek(Current(d)), d /= 0, that failed in the refresh: pos is at the
\* target, whose cluster does not resolve
C18_Witness ==
    /\ last.op = "seek" /\ last.mode = "Current" /\ last.arg # 0
    /\ last.res = "Err" /\ last.kind \in TranslationErrors
    /\ ~Resolves(qcow, pos)
    /\ l2_key = pos \div ClusterSize

====
